---- MODULE Spec2Model ----
(***************************************************************************)
(* docshit (src/src/App.jsx): the App component's document session, its    *)
(* two format adapters (processPdf, processDocx), the aggregation step     *)
(* (finishScan), the sanitizer (sanitizeText) and the highlighter          *)
(* (highlightRiskyText).                                                   *)
(*                                                                         *)
(* Text is a sequence of one-character strings.  The finding identifiers   *)
(* (id: Math.random()) are left out: no line of the program reads them.    *)
(* Presentation-only state (theme, copied, rightPanel, mobileView,         *)
(* selectedIssue) is left out as well: it is never read by the handlers    *)
(* modelled here.                                                          *)
(***************************************************************************)
EXTENDS Integers, Sequences, FiniteSets, TLC

VARIABLES
    file,        \* useState: the current document (a file record) or Null
    fileUrl,     \* useState: the current preview handle or Null
    isScanning,  \* useState
    scanResult,  \* useState: the ScanResult record or Null
    progress,    \* useState
    liveUrls,    \* the browser's object-URL store: created and not revoked
    scans,       \* one entry per processPdf/processDocx call, in call order
    timers,      \* pending finishScan timeouts (indexes into scans), oldest first
    uploads,     \* number of processFile calls that carried a file
    resultGen,   \* index in scans of the call whose completion ran last (0: none)
    text,        \* text harness: the text handed to sanitizeText or highlightRiskyText
    sanitized,   \* sanitizer harness: [out |-> what sanitizeText returned], or Null
    again,       \* sanitizer harness: [out |-> sanitizeText of sanitized.out], or Null
    hlIssues,    \* highlighter harness: the issue list handed to highlightRiskyText
    segments     \* highlighter harness: [parts |-> what highlightRiskyText returned], or Null

vars == <<file, fileUrl, isScanning, scanResult, progress, liveUrls, scans,
          timers, uploads, resultGen, text, sanitized, again, hlIssues, segments>>

harnessVars == <<text, sanitized, again, hlIssues, segments>>

sessionVars == <<file, fileUrl, isScanning, scanResult, progress, liveUrls,
                 scans, timers, uploads, resultGen>>

Null == [null |-> TRUE]

-----------------------------------------------------------------------------
(* Characters and strings                                                   *)

UPPER == <<"A","B","C","D","E","F","G","H","I","J","K","L","M","N","O","P","Q","R","S","T","U","V","W","X","Y","Z">>
LOWER == <<"a","b","c","d","e","f","g","h","i","j","k","l","m","n","o","p","q","r","s","t","u","v","w","x","y","z">>

\* String.prototype.toLowerCase / toUpperCase, one character
LowerChar(c) ==
    IF \E i \in DOMAIN UPPER : UPPER[i] = c
    THEN LOWER[CHOOSE i \in DOMAIN UPPER : UPPER[i] = c]
    ELSE c

UpperChar(c) ==
    IF \E i \in DOMAIN LOWER : LOWER[i] = c
    THEN UPPER[CHOOSE i \in DOMAIN LOWER : LOWER[i] = c]
    ELSE c

toLowerCase(s) == [i \in 1..Len(s) |-> LowerChar(s[i])]

toUpperCase(s) == [i \in 1..Len(s) |-> UpperChar(s[i])]

\* String.prototype.includes
includes(s, sub) ==
    \E i \in 1..(Len(s) - Len(sub) + 1) : SubSeq(s, i, i + Len(sub) - 1) = sub

\* the characters String.prototype.trim strips
WhiteSpace == {" ", "\n", "\t"}

SetMin(S) == CHOOSE m \in S : \A n \in S : m <= n
SetMax(S) == CHOOSE m \in S : \A n \in S : n <= m

\* String.prototype.trim
trim(s) ==
    LET keep == {i \in 1..Len(s) : s[i] \notin WhiteSpace}
    IN  IF keep = {} THEN <<>> ELSE SubSeq(s, SetMin(keep), SetMax(keep))

-----------------------------------------------------------------------------
(* The configured phrase list                                               *)

SUSPICIOUS_KEYWORDS == <<
    <<"i","g","n","o","r","e"," ","p","r","e","v","i","o","u","s"," ","i","n","s","t","r","u","c","t","i","o","n","s">>,
    <<"s","y","s","t","e","m"," ","p","r","o","m","p","t">>,
    <<"h","i","d","d","e","n"," ","i","n","s","t","r","u","c","t","i","o","n">>,
    <<"j","a","i","l","b","r","e","a","k">>,
    <<"d","o"," ","a","n","y","t","h","i","n","g"," ","n","o","w">>,
    <<"i","g","n","o","r","e"," ","a","l","l"," ","r","u","l","e","s">>,
    <<"f","o","r","g","o","t"," ","a","b","o","u","t"," ","p","r","e","v","i","o","u","s">>,
    <<"a","c","t","u","a","l","l","y"," ","m","o","v","e"," ","i","n">>,
    <<"i","n","s","t","e","a","d"," ","o","f">>,
    <<"n","e","w"," ","i","n","s","t","r","u","c","t","i","o","n","s">> >>

-----------------------------------------------------------------------------
(* sanitizeText                                                             *)

\* a replacement that deletes the phrase instead of marking it
REMOVED_NOTHING == <<>>

REMOVED == <<"[","R","E","M","O","V","E","D","]">>

\* the 'i' flag of RegExp: characters are compared after Canonicalize,
\* which maps a character to its upper case
Canonicalize(c) == UpperChar(c)

\* does the literal pattern kw match the subject at position i, ignoring case
MatchesAt(s, i, kw) ==
    /\ i + Len(kw) - 1 <= Len(s)
    /\ \A j \in 1..Len(kw) : Canonicalize(s[i + j - 1]) = Canonicalize(kw[j])

\* sanitized.replace(new RegExp(keyword, 'gi'), '[REMOVED]'): leftmost
\* matches, left to right, each resuming after the match it replaced
RECURSIVE ReplaceFrom(_, _, _)
ReplaceFrom(s, kw, i) ==
    IF i > Len(s) THEN <<>>
    ELSE IF MatchesAt(s, i, kw)
         THEN REMOVED \o ReplaceFrom(s, kw, i + Len(kw))
         ELSE <<s[i]>> \o ReplaceFrom(s, kw, i + 1)

\* a replace without the 'g' flag: only the first match is replaced
RECURSIVE ReplaceFirstFrom(_, _, _)
ReplaceFirstFrom(s, kw, i) ==
    IF i > Len(s) THEN <<>>
    ELSE IF MatchesAt(s, i, kw)
         THEN REMOVED \o SubSeq(s, i + Len(kw), Len(s))
         ELSE <<s[i]>> \o ReplaceFirstFrom(s, kw, i + 1)

replaceKeywordFirstOnly(s, kw) == ReplaceFirstFrom(s, kw, 1)

replaceKeyword(s, kw) == ReplaceFrom(s, kw, 1)

\* SUSPICIOUS_KEYWORDS.forEach(...): the first n phrases applied in list order
RECURSIVE SanitizeUpTo(_, _)
SanitizeUpTo(s, n) ==
    IF n = 0 THEN s
    ELSE replaceKeyword(SanitizeUpTo(s, n - 1), SUSPICIOUS_KEYWORDS[n])

sanitizeText(t) == SanitizeUpTo(t, Len(SUSPICIOUS_KEYWORDS))

-----------------------------------------------------------------------------
(* highlightRiskyText (lines 115-130)                                       *)
(* The pattern is built as source text and compiled, as the program does.  *)
(* Compile implements the part of the RegExp syntax the sources built here *)
(* can contain: one capturing group around alternatives of literal         *)
(* characters, \c for the literal c, and . for any character but a line    *)
(* break.  exec returns the length of the match, 0 for none: no            *)
(* alternative is empty, filter(Boolean) having dropped the empty          *)
(* contexts and the configured phrases being non-empty.                    *)

\* issues.map(issue => issue.context).filter(Boolean)
FilterBoolean(contexts) == SelectSeq(contexts, LAMBDA c : c # <<>>)

\* [...new Set(list)]: the first occurrence of each string, in list order
RECURSIVE SetOrder(_, _)
SetOrder(list, n) ==
    IF n = 0 THEN <<>>
    ELSE LET d == SetOrder(list, n - 1)
         IN  IF \E j \in DOMAIN d : d[j] = list[n] THEN d ELSE Append(d, list[n])

\* a list left in insertion order
SortSkipped(list, n) == SubSeq(list, 1, n)

\* .sort((a,b) => b.length - a.length): stable, longest first
RECURSIVE SortByLength(_, _)
SortByLength(list, n) ==
    IF n = 0 THEN <<>>
    ELSE LET sorted == SortByLength(list, n - 1)
             k == Cardinality({j \in DOMAIN sorted : Len(sorted[j]) >= Len(list[n])})
         IN  SubSeq(sorted, 1, k) \o <<list[n]>> \o SubSeq(sorted, k + 1, Len(sorted))

\* the characters of the class [.*+?^${}()|[\]\\]
MetaChars == {".", "*", "+", "?", "^", "$", "{", "}", "(", ")", "|", "[", "]", "\\"}

\* f.replace(/[.*+?^${}()|[\]\\]/g, '\\$&')
RECURSIVE EscapeFrom(_, _)
EscapeFrom(f, i) ==
    IF i > Len(f) THEN <<>>
    ELSE (IF f[i] \in MetaChars THEN <<"\\", f[i]>> ELSE <<f[i]>>) \o EscapeFrom(f, i + 1)

escapeRegExp(f) == EscapeFrom(f, 1)

\* escaped.join('|')
RECURSIVE Join(_, _)
Join(list, n) ==
    IF n = 0 THEN <<>>
    ELSE IF n = 1 THEN list[1]
    ELSE Join(list, n - 1) \o <<"|">> \o list[n]

\* `(${escaped.join('|')})`
RegExpSource(escaped) == <<"(">> \o Join(escaped, Len(escaped)) \o <<")">>

Literal(c) == [kind |-> "literal", ch |-> c]

AnyChar == [kind |-> "any", ch |-> "."]

\* the number of backslashes that immediately precede position i
BackslashesBefore(body, i) ==
    SetMax({k \in 0..(i - 1) : \A j \in (i - k)..(i - 1) : body[j] = "\\"})

\* position i is read as itself: it is not the character a backslash escapes
Unescaped(body, i) == BackslashesBefore(body, i) % 2 = 0

\* the atoms of one alternative
RECURSIVE ParseAtoms(_, _)
ParseAtoms(alt, i) ==
    IF i > Len(alt) THEN <<>>
    ELSE IF alt[i] = "\\" /\ i < Len(alt)
         THEN <<Literal(alt[i + 1])>> \o ParseAtoms(alt, i + 2)
    ELSE IF alt[i] = "."
         THEN <<AnyChar>> \o ParseAtoms(alt, i + 1)
    ELSE <<Literal(alt[i])>> \o ParseAtoms(alt, i + 1)

\* the alternatives of the group's body, each a sequence of atoms: the body
\* is cut at every | that no backslash escapes
ParseAlternatives(body) ==
    LET bars == {i \in DOMAIN body : body[i] = "|" /\ Unescaped(body, i)}
        cuts == bars \cup {0, Len(body) + 1}
        starts == cuts \ {Len(body) + 1}
        Nth(n) == CHOOSE c \in starts : Cardinality({d \in starts : d < c}) = n - 1
        End(c) == SetMin({d \in cuts : d > c})
    IN  [n \in 1..Cardinality(starts) |->
            ParseAtoms(SubSeq(body, Nth(n) + 1, End(Nth(n)) - 1), 1)]

\* new RegExp(source, 'gi'), source being one group
Compile(source) == ParseAlternatives(SubSeq(source, 2, Len(source) - 1))

AtomMatches(atom, c) ==
    IF atom.kind = "any" THEN c # "\n"
    ELSE Canonicalize(c) = Canonicalize(atom.ch)

AlternativeMatchesAt(alt, s, q) ==
    /\ q + Len(alt) - 1 <= Len(s)
    /\ \A j \in DOMAIN alt : AtomMatches(alt[j], s[q + j - 1])

\* the match at position q: alternatives are tried in order and the first
\* that matches is taken; the result is its length, 0 for no match
exec(regex, s, q) ==
    LET hits == {n \in DOMAIN regex : AlternativeMatchesAt(regex[n], s, q)}
    IN  IF hits = {} THEN 0 ELSE Len(regex[SetMin(hits)])

\* split by a pattern without a capturing group: the matches are dropped
RECURSIVE SplitFromWithoutGroup(_, _, _, _)
SplitFromWithoutGroup(regex, s, p, q) ==
    IF q > Len(s) THEN <<SubSeq(s, p, Len(s))>>
    ELSE LET n == exec(regex, s, q)
         IN  IF n = 0 THEN SplitFromWithoutGroup(regex, s, p, q + 1)
             ELSE <<SubSeq(s, p, q - 1)>>
                  \o SplitFromWithoutGroup(regex, s, q + n, q + n)

\* text.split(regex): p is where the piece being collected starts, q the
\* position tried next; a match closes the piece and is itself added, the
\* whole pattern being a capturing group
RECURSIVE SplitFrom(_, _, _, _)
SplitFrom(regex, s, p, q) ==
    IF q > Len(s) THEN <<SubSeq(s, p, Len(s))>>
    ELSE LET n == exec(regex, s, q)
         IN  IF n = 0 THEN SplitFrom(regex, s, p, q + 1)
             ELSE <<SubSeq(s, p, q - 1), SubSeq(s, q, q + n - 1)>>
                  \o SplitFrom(regex, s, q + n, q + n)

split(s, regex) == SplitFrom(regex, s, 1, 1)

\* [...new Set([...SUSPICIOUS_KEYWORDS, ...flagSnippets])].sort(...)
AllFlags(issues) ==
    LET flagSnippets == FilterBoolean([n \in DOMAIN issues |-> issues[n].context])
        distinct == SetOrder(SUSPICIOUS_KEYWORDS \o flagSnippets,
                             Len(SUSPICIOUS_KEYWORDS) + Len(flagSnippets))
    IN  SortByLength(distinct, Len(distinct))

\* the rendered children: [part, mark], mark being TRUE for a <mark>
\* element.  issues is an array at the only call (line 484); text being
\* empty, the text itself is returned
highlightRiskyText(t, issues) ==
    IF t = <<>> THEN <<[part |-> t, mark |-> FALSE]>>
    ELSE LET allFlags == AllFlags(issues)
             escaped == [n \in DOMAIN allFlags |-> escapeRegExp(allFlags[n])]
             regex == Compile(RegExpSource(escaped))
             parts == split(t, regex)
             isMatch(part) == \E n \in DOMAIN allFlags :
                                  toLowerCase(allFlags[n]) = toLowerCase(part)
         IN  [i \in DOMAIN parts |-> [part |-> parts[i], mark |-> isMatch(parts[i])]]

-----------------------------------------------------------------------------
(* Files                                                                    *)
(* A File is [name, type, fault, pages, runs].  name is [stem, ext], so    *)
(* that name.endsWith('.pdf') is name.ext = "pdf".  pages is what the PDF  *)
(* library extracts (a sequence of pages, each a sequence of items          *)
(* [str, transform0]); runs is the sequence of w:r elements of              *)
(* word/document.xml, each [tNodes, rPr, color, sz]; color and sz are Null  *)
(* (no such element) or [val |-> attribute], an attribute being Null        *)
(* (absent) or [str |-> its text].  fault names the                         *)
(* asynchronous step at which the extraction capability fails ("none": it  *)
(* does not).                                                               *)

endsWith(name, ext) == name.ext = ext

DIGITS == <<"0","1","2","3","4","5","6","7","8","9">>

IsDigit(c) == \E d \in DOMAIN DIGITS : DIGITS[d] = c

DigitVal(c) == (CHOOSE d \in DOMAIN DIGITS : DIGITS[d] = c) - 1

NaN == [nan |-> TRUE]

\* value of the leading digits of s, read left to right
RECURSIVE DigitsValue(_, _, _)
DigitsValue(s, i, acc) ==
    IF i > Len(s) \/ ~IsDigit(s[i]) THEN acc
    ELSE DigitsValue(s, i + 1, acc * 10 + DigitVal(s[i]))

\* parseInt(attr).  attr is what getAttribute returned: [str |-> s], or Null
\* when the attribute is absent.  The result is [n |-> integer] or NaN.
parseInt(attr) ==
    IF attr = Null THEN NaN
    ELSE LET t == trim(attr.str)
             neg == Len(t) > 0 /\ t[1] = "-"
             d == IF Len(t) > 0 /\ t[1] \in {"-", "+"} THEN Tail(t) ELSE t
         IN  IF Len(d) = 0 \/ ~IsDigit(d[1]) THEN NaN
             ELSE IF neg THEN [n |-> 0 - DigitsValue(d, 1, 0)]
                  ELSE [n |-> DigitsValue(d, 1, 0)]

\* Math.abs
abs(n) == IF n < 0 THEN 0 - n ELSE n

\* Math.round((i / numPages) * 100)
progressOf(i, numPages) == (200 * i + numPages) \div (2 * numPages)

-----------------------------------------------------------------------------
(* processPdf: the rules applied to one text item (lines 168-196)          *)

PdfKeywordIssue(item, page, keyword) ==
    [type |-> "Injection Keyword",
     detail |-> [msg |-> "Blocked phrase", keyword |-> keyword],
     context |-> item.str, page |-> page, severity |-> "high"]

\* the keyword rule with the item's text left in its own case
RECURSIVE PdfKeywordIssuesCaseSensitive(_, _, _)
PdfKeywordIssuesCaseSensitive(item, page, n) ==
    IF n = 0 THEN <<>>
    ELSE PdfKeywordIssuesCaseSensitive(item, page, n - 1) \o
         (IF includes(item.str, toLowerCase(SUSPICIOUS_KEYWORDS[n]))
          THEN <<PdfKeywordIssue(item, page, SUSPICIOUS_KEYWORDS[n])>>
          ELSE <<>>)

\* SUSPICIOUS_KEYWORDS.forEach over the first n phrases
RECURSIVE PdfKeywordIssues(_, _, _)
PdfKeywordIssues(item, page, n) ==
    IF n = 0 THEN <<>>
    ELSE PdfKeywordIssues(item, page, n - 1) \o
         (IF includes(toLowerCase(item.str), toLowerCase(SUSPICIOUS_KEYWORDS[n]))
          THEN <<PdfKeywordIssue(item, page, SUSPICIOUS_KEYWORDS[n])>>
          ELSE <<>>)

PdfIsMicro(item) ==
    LET fontSize == abs(item.transform0)
    IN  fontSize > 0 /\ fontSize < 4 /\ Len(trim(toLowerCase(item.str))) > 0

PdfMicroIssues(item, page) ==
    IF PdfIsMicro(item)
    THEN <<[type |-> "Hidden Text",
            detail |-> [msg |-> "Micro-text caught", size |-> abs(item.transform0)],
            context |-> item.str, page |-> page, severity |-> "medium"]>>
    ELSE <<>>

PdfItemIssues(item, page) ==
    PdfKeywordIssues(item, page, Len(SUSPICIOUS_KEYWORDS)) \o PdfMicroIssues(item, page)

\* the issues of a page labelled with the page's index counted from zero
RECURSIVE PdfPageIssuesFromZero(_, _, _)
PdfPageIssuesFromZero(items, page, n) ==
    IF n = 0 THEN <<>>
    ELSE PdfPageIssuesFromZero(items, page, n - 1) \o PdfItemIssues(items[n], page - 1)

\* textContent.items.forEach: the issues of the first n items of a page
RECURSIVE PdfPageIssues(_, _, _)
PdfPageIssues(items, page, n) ==
    IF n = 0 THEN <<>>
    ELSE PdfPageIssues(items, page, n - 1) \o PdfItemIssues(items[n], page)

\* pageText += item.str + " "
RECURSIVE PdfPageText(_, _)
PdfPageText(items, n) ==
    IF n = 0 THEN <<>> ELSE PdfPageText(items, n - 1) \o items[n].str \o <<" ">>

-----------------------------------------------------------------------------
(* processDocx: the rules applied to one run (lines 227-283)               *)

\* Array.from(tNodes).map(node => node.textContent).join("")
RECURSIVE JoinText(_, _)
JoinText(tNodes, n) ==
    IF n = 0 THEN <<>> ELSE JoinText(tNodes, n - 1) \o tNodes[n]

RunText(run) == JoinText(run.tNodes, Len(run.tNodes))

WHITE == <<"F","F","F","F","F","F">>
WHITE00 == <<"F","F","F","F","F","F","0","0">>

DocxIsWhite(run) ==
    /\ run.rPr
    /\ run.color # Null
    /\ LET colorVal == toUpperCase(IF run.color.val = Null THEN <<>> ELSE run.color.val.str)
       IN  colorVal = WHITE \/ colorVal = WHITE00

\* szVal <= 8, false when szVal is NaN
DocxSizeIsMicro(szVal) == szVal # NaN /\ szVal.n <= 8

DocxIsMicro(run) ==
    /\ run.rPr
    /\ run.sz # Null
    /\ DocxSizeIsMicro(parseInt(run.sz.val))

\* the hidden-colour rule without its test for non-blank text
DocxWhiteIssuesOfBlank(run) ==
    IF DocxIsWhite(run)
    THEN <<[type |-> "Hidden Text", detail |-> [msg |-> "White-on-white text detected"],
            context |-> RunText(run), page |-> 1, severity |-> "high"]>>
    ELSE <<>>

DocxWhiteIssues(run) ==
    IF DocxIsWhite(run) /\ Len(trim(RunText(run))) > 0
    THEN <<[type |-> "Hidden Text", detail |-> [msg |-> "White-on-white text detected"],
            context |-> RunText(run), page |-> 1, severity |-> "high"]>>
    ELSE <<>>

DocxMicroIssues(run) ==
    IF DocxIsMicro(run) /\ Len(trim(RunText(run))) > 0
    THEN <<[type |-> "Micro-text", detail |-> [msg |-> "Suspiciously small font size"],
            context |-> RunText(run), page |-> 1, severity |-> "medium"]>>
    ELSE <<>>

DocxKeywordIssue(run) ==
    [type |-> "Injection Keyword", detail |-> [msg |-> "Malicious command phrase"],
     context |-> RunText(run), page |-> 1, severity |-> "high"]

RECURSIVE DocxKeywordIssues(_, _)
DocxKeywordIssues(run, n) ==
    IF n = 0 THEN <<>>
    ELSE DocxKeywordIssues(run, n - 1) \o
         (IF includes(toLowerCase(RunText(run)), toLowerCase(SUSPICIOUS_KEYWORDS[n]))
          THEN <<DocxKeywordIssue(run)>>
          ELSE <<>>)

\* one iteration of the for loop; a run without w:t children is skipped
DocxRunIssues(run) ==
    IF Len(run.tNodes) = 0 THEN <<>>
    ELSE DocxWhiteIssues(run) \o DocxMicroIssues(run) \o
         DocxKeywordIssues(run, Len(SUSPICIOUS_KEYWORDS))

DocxRunRawText(run) ==
    IF Len(run.tNodes) = 0 THEN <<>> ELSE RunText(run) \o <<" ">>

RECURSIVE DocxIssues(_, _)
DocxIssues(runs, n) ==
    IF n = 0 THEN <<>> ELSE DocxIssues(runs, n - 1) \o DocxRunIssues(runs[n])

RECURSIVE DocxFullText(_, _)
DocxFullText(runs, n) ==
    IF n = 0 THEN <<>> ELSE DocxFullText(runs, n - 1) \o DocxRunRawText(runs[n])

-----------------------------------------------------------------------------
(* The session: App's state and handlers                                    *)

Init ==
    /\ file = Null
    /\ fileUrl = Null
    /\ isScanning = FALSE
    /\ scanResult = Null
    /\ progress = 0
    /\ liveUrls = {}
    /\ scans = <<>>
    /\ timers = <<>>
    /\ uploads = 0
    /\ resultGen = 0
    /\ text = <<>>
    /\ sanitized = Null
    /\ again = Null
    /\ hlIssues = <<>>
    /\ segments = Null

\* which of the three views the component renders (lines 390, 401, 492)
View ==
    IF isScanning THEN "scanning"
    ELSE IF scanResult # Null THEN "result"
    ELSE "home"

\* a revoke that releases nothing
revokeNothing(urls, url) == urls

\* URL.revokeObjectURL(url) on the object-URL store
revokeObjectURL(urls, url) == urls \ {url}

\* if (fileUrl) URL.revokeObjectURL(fileUrl)
RevokeCurrent(urls) ==
    IF fileUrl # Null THEN revokeObjectURL(urls, fileUrl) ELSE urls

\* the entry of scans a processPdf/processDocx call starts with
NewScan(kind, f, pc) ==
    [kind |-> kind, file |-> f, pc |-> pc, i |-> 0, numPages |-> 0,
     foundIssues |-> <<>>, fullText |-> <<>>, pageCount |-> 0, isEmpty |-> FALSE]

\* the branch of processFile: which adapter, if any, takes the file
AdapterFor(selectedFile) ==
    IF selectedFile.type = "application/pdf" \/ endsWith(selectedFile.name, "pdf")
    THEN "pdf"
    ELSE IF endsWith(selectedFile.name, "docx") THEN "docx"
    ELSE "none"

\* processFile(selectedFile), with the synchronous head of processPdf (up to
\* reader.readAsArrayBuffer) or of processDocx (up to the first await)
processFile(selectedFile) ==
    /\ liveUrls' = RevokeCurrent(liveUrls) \cup {[blob |-> uploads + 1]}
    /\ fileUrl' = [blob |-> uploads + 1]
    /\ file' = selectedFile
    /\ uploads' = uploads + 1
    /\ IF AdapterFor(selectedFile) = "pdf"
       THEN /\ isScanning' = TRUE
            /\ scanResult' = Null
            /\ progress' = 0
            /\ scans' = Append(scans, NewScan("pdf", selectedFile, "readAsArrayBuffer"))
       ELSE IF AdapterFor(selectedFile) = "docx"
       THEN /\ isScanning' = TRUE
            /\ scanResult' = Null
            /\ progress' = 10
            /\ scans' = Append(scans, NewScan("docx", selectedFile, "arrayBuffer"))
       ELSE UNCHANGED <<isScanning, scanResult, progress, scans>>
    /\ UNCHANGED <<timers, resultGen, harnessVars>>

reset ==
    /\ liveUrls' = RevokeCurrent(liveUrls)
    /\ file' = Null
    /\ fileUrl' = Null
    /\ scanResult' = Null
    /\ isScanning' = FALSE
    /\ UNCHANGED <<progress, scans, timers, uploads, resultGen, harnessVars>>

\* const isEmpty = rawText.trim().length === 0
IsEmptyOf(rawText) == Len(trim(rawText)) = 0

\* finishScan up to setTimeout: the call's entry now waits for its timeout
FinishScan(scan, foundIssues, pageCount, rawText) ==
    [scan EXCEPT !.pc = "timeout", !.foundIssues = foundIssues,
                 !.pageCount = pageCount, !.fullText = rawText,
                 !.isEmpty = IsEmptyOf(rawText)]

\* a result whose safe flag looks at the issues only
ScanResultSafeIgnoresEmpty(foundIssues, pageCount, rawText, sourceFile, isEmpty) ==
    [safe |-> Len(foundIssues) = 0,
     issues |-> foundIssues,
     pageCount |-> pageCount,
     fileName |-> sourceFile.name,
     rawText |-> rawText,
     sanitizedText |-> sanitizeText(rawText),
     isEmpty |-> isEmpty]

\* the object handed to setScanResult
ScanResultOf(foundIssues, pageCount, rawText, sourceFile, isEmpty) ==
    [safe |-> Len(foundIssues) = 0 /\ ~isEmpty,
     issues |-> foundIssues,
     pageCount |-> pageCount,
     fileName |-> sourceFile.name,
     rawText |-> rawText,
     sanitizedText |-> sanitizeText(rawText),
     isEmpty |-> isEmpty]

\* the setTimeout callback of finishScan; timeouts of equal delay run in the
\* order they were set
FinishScanTimeout ==
    /\ timers # <<>>
    /\ LET g == Head(timers)
           scan == scans[g]
       IN  /\ isScanning' = FALSE
           /\ scanResult' = ScanResultOf(scan.foundIssues, scan.pageCount,
                                         scan.fullText, scan.file, scan.isEmpty)
           /\ scans' = [scans EXCEPT ![g].pc = "done"]
           /\ resultGen' = g
    /\ timers' = Tail(timers)
    /\ UNCHANGED <<file, fileUrl, progress, liveUrls, uploads, harnessVars>>

\* an asynchronous step of the call g is about to resume
At(g, kind, pc) == scans[g].kind = kind /\ scans[g].pc = pc

\* does the extraction capability fail at the step the call g waits for
Fails(g) == scans[g].file.fault = scans[g].pc

\* reader.onload; when the read fails onload never runs (no onerror is set)
PdfReaderLoad(g) ==
    /\ At(g, "pdf", "readAsArrayBuffer")
    /\ scans' = [scans EXCEPT ![g].pc = IF Fails(g) THEN "failed" ELSE "getDocument"]
    /\ UNCHANGED <<file, fileUrl, isScanning, scanResult, progress, liveUrls,
                   timers, uploads, resultGen, harnessVars>>

\* await pdfjsLib.getDocument(typedarray).promise, then the loop head for page 1.
\* A rejection here is inside the async onload handler, outside processPdf's try.
PdfGetDocument(g) ==
    /\ At(g, "pdf", "getDocument")
    /\ LET scan == scans[g]
           numPages == Len(scan.file.pages)
       IN  IF Fails(g)
           THEN /\ scans' = [scans EXCEPT ![g].pc = "failed"]
                /\ UNCHANGED <<progress, timers>>
           ELSE IF 1 <= numPages
           THEN /\ scans' = [scans EXCEPT ![g] =
                        [scan EXCEPT !.pc = "getPage", !.i = 1, !.numPages = numPages]]
                /\ progress' = progressOf(1, numPages)
                /\ UNCHANGED timers
           ELSE /\ scans' = [scans EXCEPT ![g] =
                        FinishScan([scan EXCEPT !.numPages = numPages], <<>>, numPages, <<>>)]
                /\ timers' = Append(timers, g)
                /\ UNCHANGED progress
    /\ UNCHANGED <<file, fileUrl, isScanning, scanResult, liveUrls, uploads,
                   resultGen, harnessVars>>

\* await pdf.getPage(i)
PdfGetPage(g) ==
    /\ At(g, "pdf", "getPage")
    /\ scans' = [scans EXCEPT ![g].pc = IF Fails(g) THEN "failed" ELSE "getTextContent"]
    /\ UNCHANGED <<file, fileUrl, isScanning, scanResult, progress, liveUrls,
                   timers, uploads, resultGen, harnessVars>>

\* await page.getTextContent(), the forEach over its items, then either the
\* next loop head or finishScan
PdfGetTextContent(g) ==
    /\ At(g, "pdf", "getTextContent")
    /\ LET scan == scans[g]
           items == scan.file.pages[scan.i]
           foundIssues == scan.foundIssues \o PdfPageIssues(items, scan.i, Len(items))
           fullText == scan.fullText \o PdfPageText(items, Len(items)) \o <<"\n", "\n">>
       IN  IF Fails(g)
           THEN /\ scans' = [scans EXCEPT ![g].pc = "failed"]
                /\ UNCHANGED <<progress, timers>>
           ELSE IF scan.i + 1 <= scan.numPages
           THEN /\ scans' = [scans EXCEPT ![g] =
                        [scan EXCEPT !.pc = "getPage", !.i = scan.i + 1,
                                     !.foundIssues = foundIssues, !.fullText = fullText]]
                /\ progress' = progressOf(scan.i + 1, scan.numPages)
                /\ UNCHANGED timers
           ELSE /\ scans' = [scans EXCEPT ![g] =
                        FinishScan(scan, foundIssues, scan.numPages, fullText)]
                /\ timers' = Append(timers, g)
                /\ UNCHANGED progress
    /\ UNCHANGED <<file, fileUrl, isScanning, scanResult, liveUrls, uploads,
                   resultGen, harnessVars>>

\* catch (error) { setIsScanning(false); } of processDocx
DocxCatch(g) ==
    /\ scans' = [scans EXCEPT ![g].pc = "failed"]
    /\ isScanning' = FALSE
    /\ UNCHANGED <<progress, timers>>

\* await docxFile.arrayBuffer()
DocxArrayBuffer(g) ==
    /\ At(g, "docx", "arrayBuffer")
    /\ IF Fails(g)
       THEN DocxCatch(g)
       ELSE /\ scans' = [scans EXCEPT ![g].pc = "loadAsync"]
            /\ UNCHANGED <<isScanning, progress, timers>>
    /\ UNCHANGED <<file, fileUrl, scanResult, liveUrls, uploads, resultGen,
                   harnessVars>>

\* await JSZip.loadAsync(arrayBuffer), then zip.file("word/document.xml"),
\* which is null when the archive has no such part (fault "file")
DocxLoadAsync(g) ==
    /\ At(g, "docx", "loadAsync")
    /\ IF Fails(g) \/ scans[g].file.fault = "file"
       THEN DocxCatch(g)
       ELSE /\ scans' = [scans EXCEPT ![g].pc = "async"]
            /\ UNCHANGED <<isScanning, progress, timers>>
    /\ UNCHANGED <<file, fileUrl, scanResult, liveUrls, uploads, resultGen,
                   harnessVars>>

\* await ....async("string"), the parse, the loop over the runs, finishScan
DocxDocumentXml(g) ==
    /\ At(g, "docx", "async")
    /\ LET scan == scans[g]
           runs == scan.file.runs
       IN  IF Fails(g)
           THEN DocxCatch(g)
           ELSE /\ scans' = [scans EXCEPT ![g] =
                        FinishScan(scan, DocxIssues(runs, Len(runs)), 1,
                                   DocxFullText(runs, Len(runs)))]
                /\ progress' = 100
                /\ timers' = Append(timers, g)
                /\ UNCHANGED isScanning
    /\ UNCHANGED <<file, fileUrl, scanResult, liveUrls, uploads, resultGen,
                   harnessVars>>

-----------------------------------------------------------------------------
(* Inputs                                                                   *)

MaxUploads == 2
MaxPages == 2
MaxRuns == 2
MaxFrags == 3

Jailbreak == SUSPICIOUS_KEYWORDS[4]

JAILBREA == <<"j","a","i","l","b","r","e","a">>

JAILBREAK_TWICE == <<"J","a","i","l","B","r","e","a","k"," ","j","a","i","l","b","r","e","a","k">>

MOVE_INSTEAD == <<"A","c","t","u","a","l","l","y"," ","m","o","v","e"," ","i","n","s","t","e","a","d"," ","o","f">>

PROMPT_NOW == <<"s","y","s","t","e","m"," ","p","r","o","m","p","t"," ","d","o"," ","a","n","y","t","h","i","n","g"," ","N","O","W">>

JAIL == <<"j","a","i","l">>

BREAK == <<"B","r","e","a","k">>

STEAD_OF == <<"s","t","e","a","d"," ","o","f">>

EW_INSTRUCTIONS == <<"e","w"," ","i","n","s","t","r","u","c","t","i","o","n","s">>

\* the texts a PDF item or a DOCX run carries
RunTexts ==
    { <<>>,
      <<" ">>,
      <<" ", "\n">>,
      <<"x">>,
      JAILBREA,
      Jailbreak,
      JAILBREAK_TWICE,
      MOVE_INSTEAD,
      PROMPT_NOW }

FontSizes == {0 - 2, 0, 1, 3, 4, 5, 12}

PdfItems == [str : RunTexts, transform0 : FontSizes]

Attr(s) == [val |-> [str |-> s]]

NoAttr == [val |-> Null]

Colors == {Null, NoAttr, Attr(WHITE), Attr(toLowerCase(WHITE)), Attr(WHITE00),
           Attr(<<"0","0","0","0","0","0">>)}

Sizes == {Null, NoAttr, Attr(<<"a","b","c">>), Attr(<<"0">>), Attr(<<"6">>),
          Attr(<<"7">>), Attr(<<"8">>), Attr(<<"9">>), Attr(<<"2","4">>),
          Attr(<<"-","2">>)}

DocxRuns ==
    [tNodes : {<<t>> : t \in RunTexts}, rPr : {TRUE}, color : Colors, sz : Sizes]
    \cup [tNodes : {<<t>> : t \in RunTexts} \cup {<<>>, <<Jailbreak, <<" ">>, Jailbreak>>},
          rPr : {FALSE}, color : {Null}, sz : {Null}]

PdfFile(stem, type, fault, pages) ==
    [name |-> [stem |-> stem, ext |-> "pdf"], type |-> type, fault |-> fault,
     pages |-> pages, runs |-> <<>>]

DocxFile(stem, fault, runs) ==
    [name |-> [stem |-> stem, ext |-> "docx"],
     type |-> "application/vnd.openxmlformats-officedocument.wordprocessingml.document",
     fault |-> fault, pages |-> <<>>, runs |-> runs]

OtherFile(stem, ext, type) ==
    [name |-> [stem |-> stem, ext |-> ext], type |-> type, fault |-> "none",
     pages |-> <<>>, runs |-> <<>>]

Item(str, transform0) == [str |-> str, transform0 |-> transform0]

Run(str, color, sz) == [tNodes |-> <<str>>, rPr |-> TRUE, color |-> color, sz |-> sz]

\* pages and runs the multi-page and multi-run documents are built from
SmallPages ==
    { <<>>,
      <<Item(<<" ">>, 2)>>,
      <<Item(Jailbreak, 12)>>,
      <<Item(<<"x">>, 2), Item(PROMPT_NOW, 3)>> }

SmallRuns ==
    { [tNodes |-> <<>>, rPr |-> FALSE, color |-> Null, sz |-> Null],
      Run(<<" ">>, Attr(WHITE), Attr(<<"6">>)),
      Run(<<"x">>, Null, Attr(<<"2","4">>)),
      Run(MOVE_INSTEAD, Attr(WHITE), Attr(<<"6">>)) }

SeqsUpTo(S, n) == UNION {[1..k -> S] : k \in 0..n}

PdfFaults == {"readAsArrayBuffer", "getDocument", "getPage", "getTextContent"}

DocxFaults == {"arrayBuffer", "loadAsync", "file", "async"}

\* the documents of the adapter specification: every one-item page and
\* one-run document, the multi-page and multi-run ones, one per fault
ScanFiles ==
    {PdfFile("doc", "application/pdf", "none", <<<<it>>>>) : it \in PdfItems}
    \cup {PdfFile("doc", "", "none", pages) : pages \in SeqsUpTo(SmallPages, MaxPages) \ {<<>>}}
    \cup {PdfFile("doc", "application/pdf", fault, <<<<Item(Jailbreak, 12)>>>>) : fault \in PdfFaults}
    \cup {DocxFile("doc", "none", <<run>>) : run \in DocxRuns}
    \cup {DocxFile("doc", "none", runs) : runs \in SeqsUpTo(SmallRuns, MaxRuns)}
    \cup {DocxFile("doc", fault, <<Run(Jailbreak, Null, Null)>>) : fault \in DocxFaults}

\* the documents of the session specification
Files ==
    { PdfFile("a", "application/pdf", "none",
              <<<<Item(<<"x">>, 12)>>, <<Item(Jailbreak, 12)>>>>),
      DocxFile("b", "none", <<Run(<<"x">>, Null, Null)>>),
      OtherFile("c", "txt", "text/plain"),
      PdfFile("d", "application/pdf", "getDocument", <<<<Item(<<"x">>, 12)>>>>),
      DocxFile("e", "loadAsync", <<Run(<<"x">>, Null, Null)>>) }

\* the pieces the sanitizer's inputs are concatenated from
Fragments ==
    { <<" ">>, <<"x">>, JAIL, BREAK, Jailbreak,
      toUpperCase(SUSPICIOUS_KEYWORDS[8]), STEAD_OF, SUSPICIOUS_KEYWORDS[3],
      EW_INSTRUCTIONS, REMOVED }

RECURSIVE Concat(_, _)
Concat(parts, n) == IF n = 0 THEN <<>> ELSE Concat(parts, n - 1) \o parts[n]

Texts == {Concat(parts, Len(parts)) : parts \in SeqsUpTo(Fragments, MaxFrags)}

\* the highlighter's inputs: texts of up to two pieces, and issues whose
\* contexts are empty, contain characters of the pattern syntax, differ
\* from a phrase by case only, or contain one another or a phrase
MaxIssues == 2

ABC == <<"a","b","c">>

A_DOT_C == <<"a",".","c">>

GROUP_B_OR == <<"(","b","|">>

NOW == <<" ","n","o","w">>

HlFragments ==
    { <<>>, ABC, A_DOT_C, GROUP_B_OR, toUpperCase(Jailbreak), NOW }

HlTexts == {a \o b : a \in HlFragments, b \in HlFragments}

HlContexts ==
    { <<>>, <<"b">>, A_DOT_C, GROUP_B_OR, toUpperCase(Jailbreak),
      Jailbreak \o NOW }

HlIssueLists ==
    {[n \in DOMAIN cs |-> [context |-> cs[n]]] : cs \in SeqsUpTo(HlContexts, MaxIssues)}

-----------------------------------------------------------------------------
(* Specifications                                                           *)

Scans == DOMAIN scans

Step ==
    \/ \E g \in Scans : PdfReaderLoad(g)
    \/ \E g \in Scans : PdfGetDocument(g)
    \/ \E g \in Scans : PdfGetPage(g)
    \/ \E g \in Scans : PdfGetTextContent(g)
    \/ \E g \in Scans : DocxArrayBuffer(g)
    \/ \E g \in Scans : DocxLoadAsync(g)
    \/ \E g \in Scans : DocxDocumentXml(g)
    \/ FinishScanTimeout

Upload == \E f \in Files : uploads < MaxUploads /\ processFile(f)

Next == Upload \/ reset \/ Step

\* the session: uploads, resets and the asynchronous steps, interleaved
Spec == Init /\ [][Next]_vars

UploadOnce == \E f \in ScanFiles : uploads = 0 /\ processFile(f)

NextScan == UploadOnce \/ Step

\* one document through its adapter
SpecScan == Init /\ [][NextScan]_vars

InitText ==
    /\ Init!1 /\ Init!2 /\ Init!3 /\ Init!4 /\ Init!5 /\ Init!6 /\ Init!7
    /\ Init!8 /\ Init!9 /\ Init!10
    /\ text \in Texts
    /\ sanitized = Null
    /\ again = Null
    /\ hlIssues = <<>>
    /\ segments = Null

Sanitize ==
    /\ sanitized = Null
    /\ sanitized' = [out |-> sanitizeText(text)]
    /\ UNCHANGED <<sessionVars, text, again, hlIssues, segments>>

\* the sanitizer applied to its own output
SanitizeAgain ==
    /\ sanitized # Null
    /\ again = Null
    /\ again' = [out |-> sanitizeText(sanitized.out)]
    /\ UNCHANGED <<sessionVars, text, sanitized, hlIssues, segments>>

NextText == Sanitize \/ SanitizeAgain

\* the sanitizer applied to a text
SpecText == InitText /\ [][NextText]_vars

InitHighlight ==
    /\ Init!1 /\ Init!2 /\ Init!3 /\ Init!4 /\ Init!5 /\ Init!6 /\ Init!7
    /\ Init!8 /\ Init!9 /\ Init!10
    /\ text \in HlTexts
    /\ sanitized = Null
    /\ again = Null
    /\ hlIssues \in HlIssueLists
    /\ segments = Null

Highlight ==
    /\ segments = Null
    /\ segments' = [parts |-> highlightRiskyText(text, hlIssues)]
    /\ UNCHANGED <<sessionVars, text, sanitized, again, hlIssues>>

NextHighlight == Highlight

\* the highlighter applied to a text and an issue list
SpecHighlight == InitHighlight /\ [][NextHighlight]_vars

-----------------------------------------------------------------------------
(* Properties                                                               *)

\* s consists of white space only
IsBlank(s) == \A i \in DOMAIN s : s[i] \in WhiteSpace

\* phrase occurs in s, letters compared without regard to case
ContainsCI(s, phrase) ==
    \E i \in 1..(Len(s) - Len(phrase) + 1) :
        \A j \in 1..Len(phrase) : LowerChar(s[i + j - 1]) = LowerChar(phrase[j])

Phrases == {SUSPICIOUS_KEYWORDS[n] : n \in DOMAIN SUSPICIOUS_KEYWORDS}

\* the document the displayed result was computed from
ResultFile == scans[resultGen].file

Published == scanResult # Null

PublishedBy(kind) == Published /\ scans[resultGen].kind = kind

\* the positions of the result's issue list that satisfy P
IssuesWhere(P(_)) == {n \in DOMAIN scanResult.issues : P(scanResult.issues[n])}

\* C1: only the most recently started scan may publish a ScanResult: a
\* displayed result was set by the completion of the latest processPdf or
\* processDocx call, never by a superseded one.
C1_OnlyLatestPublishes == Published => resultGen = Len(scans)

\* C2: a displayed ScanResult belongs to the current document: its fileName
\* is the name of the current file.
C2_ResultOfCurrentFile ==
    Published => (file # Null /\ scanResult.fileName = file.name)

\* C3: in every published ScanResult isEmpty is true exactly when rawText is
\* blank, and safe is true exactly when there is no issue and isEmpty is false.
C3_SafeAndEmpty ==
    Published =>
        /\ scanResult.isEmpty <=> IsBlank(scanResult.rawText)
        /\ scanResult.safe <=> (Len(scanResult.issues) = 0 /\ ~scanResult.isEmpty)

C3_Witness ==
    /\ Published
    /\ scanResult.isEmpty
    /\ ~scanResult.safe
    /\ Len(scanResult.rawText) > 0

\* every run of the document has blank text (or there is no run)
AllRunsBlank(f) ==
    /\ \A p \in DOMAIN f.pages : \A n \in DOMAIN f.pages[p] : IsBlank(f.pages[p][n].str)
    /\ \A n \in DOMAIN f.runs : IsBlank(RunText(f.runs[n]))

\* C4: a document whose runs are all blank, whatever their sizes and colours,
\* never fails and is published with isEmpty = true, safe = false and no
\* issue; and isEmpty = true implies that the issue list is empty.
C4_BlankDocument ==
    /\ \A g \in Scans :
           (scans[g].file.fault = "none" /\ AllRunsBlank(scans[g].file))
               => scans[g].pc # "failed"
    /\ (Published /\ AllRunsBlank(ResultFile)) =>
           (scanResult.isEmpty /\ ~scanResult.safe /\ scanResult.issues = <<>>)
    /\ (Published /\ scanResult.isEmpty) => scanResult.issues = <<>>

C4_Witness ==
    /\ PublishedBy("docx")
    /\ Len(ResultFile.runs) = 2
    /\ AllRunsBlank(ResultFile)
    /\ \A n \in DOMAIN ResultFile.runs :
           DocxIsWhite(ResultFile.runs[n]) /\ DocxIsMicro(ResultFile.runs[n])
    /\ scanResult.isEmpty

\* C5: when the extraction capability fails, no ScanResult is produced and
\* the session shows a failure: neither the home view nor a scan in progress.
C5_FailureIsVisible ==
    \A g \in Scans :
        (g = Len(scans) /\ scans[g].pc = "failed" /\ file = scans[g].file)
            => (~Published /\ View \notin {"home", "scanning"})

\* what the component renders of the session state
Rendered ==
    IF View = "scanning" THEN <<View, progress>>
    ELSE IF View = "result" THEN <<View, scanResult, file, fileUrl>>
    ELSE <<View>>

\* C6: an upload that is neither a PDF nor a DOCX starts no adapter, and its
\* rejection is observable: what is rendered after it differs from before.
C6_RejectionObservable ==
    [][\A f \in Files :
           (AdapterFor(f) = "none" /\ processFile(f))
               => (scans' = scans /\ Rendered' # Rendered)]_vars

\* C7: at every moment the created-and-not-revoked preview handles are
\* exactly the current fileUrl, and none when there is no fileUrl.
C7_OneLiveHandle == liveUrls = (IF fileUrl = Null THEN {} ELSE {fileUrl})

C7_Witness == uploads = 2 /\ fileUrl = [blob |-> 2] /\ liveUrls = {fileUrl}

IsKeywordIssue(issue) == issue.type = "Injection Keyword"

\* C8: per run and phrase, exactly one Injection Keyword issue (severity
\* high, context = the run's text, page = the run's page) if the run's text
\* contains the phrase without regard to case, none otherwise.  A PDF issue
\* names its phrase; a DOCX issue does not, so the runs of one text are
\* counted against the phrases that text contains.
C8_OneIssuePerPhrase ==
    /\ Published =>
           \A n \in IssuesWhere(IsKeywordIssue) : scanResult.issues[n].severity = "high"
    /\ PublishedBy("pdf") =>
           \A n \in IssuesWhere(IsKeywordIssue) :
               LET issue == scanResult.issues[n]
               IN  /\ issue.page \in DOMAIN ResultFile.pages
                   /\ issue.detail.keyword \in Phrases
                   /\ Cardinality({m \in IssuesWhere(IsKeywordIssue) :
                                      /\ scanResult.issues[m].page = issue.page
                                      /\ scanResult.issues[m].context = issue.context
                                      /\ scanResult.issues[m].detail = issue.detail})
                      = Cardinality({i \in DOMAIN ResultFile.pages[issue.page] :
                                      ResultFile.pages[issue.page][i].str = issue.context})
                   /\ ContainsCI(issue.context, issue.detail.keyword)
    /\ PublishedBy("pdf") =>
           \A p \in DOMAIN ResultFile.pages : \A i \in DOMAIN ResultFile.pages[p] :
               \A k \in Phrases :
                   ContainsCI(ResultFile.pages[p][i].str, k) =>
                       \E n \in IssuesWhere(IsKeywordIssue) :
                           /\ scanResult.issues[n].page = p
                           /\ scanResult.issues[n].context = ResultFile.pages[p][i].str
                           /\ scanResult.issues[n].detail.keyword = k
    /\ PublishedBy("docx") =>
           /\ \A n \in IssuesWhere(IsKeywordIssue) :
                  /\ scanResult.issues[n].page = 1
                  /\ \E i \in DOMAIN ResultFile.runs :
                         RunText(ResultFile.runs[i]) = scanResult.issues[n].context
           /\ \A i \in DOMAIN ResultFile.runs :
                  LET t == RunText(ResultFile.runs[i])
                  IN  Cardinality({n \in IssuesWhere(IsKeywordIssue) :
                                      scanResult.issues[n].context = t})
                      = Cardinality({j \in DOMAIN ResultFile.runs :
                                      RunText(ResultFile.runs[j]) = t})
                        * Cardinality({k \in Phrases : ContainsCI(t, k)})

C8_Witness ==
    /\ PublishedBy("pdf")
    /\ ResultFile.pages = <<<<Item(JAILBREAK_TWICE, 12)>>>>
    /\ Cardinality(IssuesWhere(IsKeywordIssue)) = 1

IsMicroIssue(issue) == issue.severity = "medium"

\* the font size of a DOCX run in half-points, or NaN
HalfPoints(run) ==
    IF run.rPr /\ run.sz # Null THEN parseInt(run.sz.val) ELSE NaN

\* C9: a run with non-blank text yields a micro-text issue (severity medium)
\* whenever its size in points is in the open interval (0, 4), and never when
\* it is 4pt or larger; a DOCX size is its half-point value divided by 2.
C9_MicroText ==
    /\ PublishedBy("pdf") =>
           \A p \in DOMAIN ResultFile.pages :
               LET items == ResultFile.pages[p]
                   micro(t) == {n \in IssuesWhere(IsMicroIssue) :
                                   /\ scanResult.issues[n].page = p
                                   /\ scanResult.issues[n].context = t}
                   sized(t, lo, hi) == {i \in DOMAIN items :
                                   /\ items[i].str = t
                                   /\ lo < abs(items[i].transform0)
                                   /\ abs(items[i].transform0) < hi}
               IN  \A i \in DOMAIN items :
                       LET t == items[i].str
                       IN  ~IsBlank(t) =>
                               /\ Cardinality(micro(t)) >= Cardinality(sized(t, 0, 4))
                               /\ Cardinality(micro(t)) <= Cardinality(sized(t, 0 - 1, 4))
    /\ PublishedBy("docx") =>
           LET runs == ResultFile.runs
               micro(t) == {n \in IssuesWhere(IsMicroIssue) :
                               scanResult.issues[n].context = t}
               \* the runs of text t whose size is at least 4pt
               large(t) == {i \in DOMAIN runs :
                               /\ RunText(runs[i]) = t
                               /\ HalfPoints(runs[i]) # NaN
                               /\ HalfPoints(runs[i]).n >= 2 * 4}
               \* the runs of text t whose size is in (0, 4)
               small(t) == {i \in DOMAIN runs :
                               /\ RunText(runs[i]) = t
                               /\ HalfPoints(runs[i]) # NaN
                               /\ HalfPoints(runs[i]).n > 0
                               /\ HalfPoints(runs[i]).n < 2 * 4}
               all(t) == {i \in DOMAIN runs : RunText(runs[i]) = t}
           IN  \A i \in DOMAIN runs :
                   LET t == RunText(runs[i])
                   IN  ~IsBlank(t) =>
                           /\ Cardinality(micro(t)) >= Cardinality(small(t))
                           /\ Cardinality(micro(t)) <= Cardinality(all(t) \ large(t))

\* C10: the sanitized text contains no occurrence of any configured phrase,
\* letters compared without regard to case.
C10_NoPhraseLeft ==
    sanitized # Null => \A k \in Phrases : ~ContainsCI(sanitized.out, k)

C10_Witness ==
    /\ sanitized # Null
    /\ text = JAIL \o toUpperCase(SUSPICIOUS_KEYWORDS[8]) \o STEAD_OF
    /\ sanitized.out = JAIL \o REMOVED \o STEAD_OF

\* C11: sanitizing is idempotent: sanitizeText applied to its own output
\* returns that output unchanged.
C11_Idempotent ==
    again # Null => again.out = sanitized.out

\* a text the first pass changes in two places, sanitized twice
C11_Witness ==
    /\ again # Null
    /\ text = Jailbreak \o <<" ">> \o SUSPICIOUS_KEYWORDS[3]
    /\ sanitized.out = REMOVED \o <<" ">> \o REMOVED
    /\ again.out = sanitized.out

\* the text of the n first rendered segments, concatenated
SegmentsText(n) ==
    Concat([i \in 1..n |-> segments.parts[i].part], n)

\* C12: the segments highlightRiskyText returns, concatenated in order,
\* reproduce the raw text exactly, whatever the issues' contexts are.
C12_RoundTrip ==
    segments # Null => SegmentsText(Len(segments.parts)) = text

\* contexts with characters of the pattern syntax, one inside the other
C12_Witness ==
    /\ segments # Null
    /\ text = GROUP_B_OR \o ABC
    /\ hlIssues = <<[context |-> <<"b">>], [context |-> GROUP_B_OR]>>
    /\ segments.parts = << [part |-> <<>>, mark |-> FALSE],
                           [part |-> GROUP_B_OR, mark |-> TRUE],
                           [part |-> <<"a">>, mark |-> FALSE],
                           [part |-> <<"b">>, mark |-> TRUE],
                           [part |-> <<"c">>, mark |-> FALSE] >>

\* the flaggable strings: the configured phrases and the issues' contexts
\* (an empty context has no occurrence to show)
Flaggable ==
    (Phrases \cup {hlIssues[n].context : n \in DOMAIN hlIssues}) \ {<<>>}

\* flag occurs in s at position i, letters compared without regard to case
OccursAt(s, i, flag) ==
    /\ i + Len(flag) - 1 <= Len(s)
    /\ \A j \in 1..Len(flag) : LowerChar(s[i + j - 1]) = LowerChar(flag[j])

\* where segment i starts in the text
SegmentStart(i) == Len(SegmentsText(i - 1)) + 1

\* C13: longest match first: a highlighted segment equals a flaggable string
\* up to case, no flaggable string occurring at the segment's start is
\* longer than the segment, and no plain segment contains a whole occurrence
\* of a flaggable string.
C13_LongestMatchFirst ==
    segments # Null =>
        \A i \in DOMAIN segments.parts :
            LET seg == segments.parts[i]
            IN  IF seg.mark
                THEN /\ \E f \in Flaggable : Len(f) = Len(seg.part) /\ OccursAt(seg.part, 1, f)
                     /\ \A g \in Flaggable :
                            OccursAt(text, SegmentStart(i), g) => Len(g) <= Len(seg.part)
                ELSE \A g \in Flaggable : ~ContainsCI(seg.part, g)

\* a phrase in capitals followed by " now": the context "jailbreak now" is
\* shown, not the phrase inside it
C13_Witness ==
    /\ segments # Null
    /\ text = toUpperCase(Jailbreak) \o NOW
    /\ hlIssues = <<[context |-> toUpperCase(Jailbreak)], [context |-> Jailbreak \o NOW]>>
    /\ segments.parts = << [part |-> <<>>, mark |-> FALSE],
                           [part |-> toUpperCase(Jailbreak) \o NOW, mark |-> TRUE],
                           [part |-> <<>>, mark |-> FALSE] >>

\* the number of configured phrases t contains
PhraseCount(t) == Cardinality({k \in Phrases : ContainsCI(t, k)})

One(b) == IF b THEN 1 ELSE 0

\* the micro-text rule: non-blank text of a size in the open interval (0, 4)
\* points, a DOCX size being half-points
PdfMicroApplies(item) ==
    /\ ~IsBlank(item.str)
    /\ \/ (0 < item.transform0 /\ item.transform0 < 4)
       \/ (0 - 4 < item.transform0 /\ item.transform0 < 0)

DocxMicroApplies(run) ==
    /\ ~IsBlank(RunText(run))
    /\ HalfPoints(run) # NaN
    /\ 0 < HalfPoints(run).n
    /\ HalfPoints(run).n < 2 * 4

\* the hidden-color rule: the hidden-color flag set on non-blank text
DocxHiddenApplies(run) == DocxIsWhite(run) /\ ~IsBlank(RunText(run))

PdfContribution(item) == PhraseCount(item.str) + One(PdfMicroApplies(item))

DocxContribution(run) ==
    PhraseCount(RunText(run)) + One(DocxMicroApplies(run)) + One(DocxHiddenApplies(run))

RECURSIVE Total(_, _, _)
Total(Contribution(_), runs, n) ==
    IF n = 0 THEN 0 ELSE Total(Contribution, runs, n - 1) + Contribution(runs[n])

IsHiddenColorIssue(issue) ==
    issue.type = "Hidden Text" /\ issue.severity = "high" /\ issue.page = 1

\* C14: no rule suppresses another: the issues a run contributes are one per
\* configured phrase its text contains, one more if the micro-text rule
\* applies and, in a DOCX, one more (Hidden Text, high, page 1) if the
\* hidden-color rule applies.  Issues do not name their run, so the runs of a
\* page (PDF) or of the document (DOCX) are counted together.
C14_NoCrossRuleSuppression ==
    /\ PublishedBy("pdf") =>
           \A p \in DOMAIN ResultFile.pages :
               Cardinality({n \in DOMAIN scanResult.issues : scanResult.issues[n].page = p})
                   = Total(PdfContribution, ResultFile.pages[p], Len(ResultFile.pages[p]))
    /\ PublishedBy("docx") =>
           /\ Len(scanResult.issues)
                  = Total(DocxContribution, ResultFile.runs, Len(ResultFile.runs))
           /\ Cardinality(IssuesWhere(IsHiddenColorIssue))
                  = Cardinality({i \in DOMAIN ResultFile.runs :
                                    DocxHiddenApplies(ResultFile.runs[i])})

\* the runs of a document in the order the adapter meets them, each as
\* <<page, text>>
RECURSIVE PdfUnits(_, _)
PdfUnits(pages, n) ==
    IF n = 0 THEN <<>>
    ELSE PdfUnits(pages, n - 1) \o [i \in DOMAIN pages[n] |-> <<n, pages[n][i].str>>]

DocxUnits(runs) == [i \in DOMAIN runs |-> <<1, RunText(runs[i])>>]

\* the issues from the n-th on can be assigned, in order, to units from the
\* j-th on that have their page and context, never stepping back
RECURSIVE InEncounterOrder(_, _, _, _)
InEncounterOrder(issues, n, units, j) ==
    IF n > Len(issues) THEN TRUE
    ELSE LET here == {u \in j..Len(units) :
                         units[u] = <<issues[n].page, issues[n].context>>}
         IN  here # {} /\ InEncounterOrder(issues, n + 1, units, SetMin(here))

\* C15: issues are listed in the order their runs are met.  For a PDF the
\* page fields never decrease, each lies in 1..pageCount, and pageCount is
\* the document's number of pages; for a DOCX every page field is 1 and
\* pageCount is 1.
C15_EncounterOrder ==
    /\ PublishedBy("pdf") =>
           /\ scanResult.pageCount = Len(ResultFile.pages)
           /\ \A n \in DOMAIN scanResult.issues :
                  /\ scanResult.issues[n].page \in 1..scanResult.pageCount
                  /\ \A m \in 1..(n - 1) :
                         scanResult.issues[m].page <= scanResult.issues[n].page
           /\ InEncounterOrder(scanResult.issues, 1,
                               PdfUnits(ResultFile.pages, Len(ResultFile.pages)), 1)
    /\ PublishedBy("docx") =>
           /\ scanResult.pageCount = 1
           /\ \A n \in DOMAIN scanResult.issues : scanResult.issues[n].page = 1
           /\ InEncounterOrder(scanResult.issues, 1, DocxUnits(ResultFile.runs), 1)

\* a PDF of two pages with issues on both
C15_Witness ==
    /\ PublishedBy("pdf")
    /\ ResultFile.pages = << <<Item(Jailbreak, 12)>>,
                             <<Item(<<"x">>, 2), Item(PROMPT_NOW, 3)>> >>
    /\ scanResult.pageCount = 2
    /\ [n \in DOMAIN scanResult.issues |-> scanResult.issues[n].page] = <<1, 2, 2, 2, 2>>

\* C16: a started scan leaves the scanning state without any further user
\* action, whether extraction succeeds or fails at any step.  The steps of a
\* scan being finitely many, this is: while isScanning holds, a step of the
\* scan or its timeout is still to come.
C16_ScanLeavesScanning == isScanning => ENABLED Step

\* C17: reset is final until the next upload: file is Null exactly from a
\* reset (or the start) to the next upload, and all that time there is no
\* scan result and no scan in progress, even if a scan started before the
\* reset was still in flight.
C17_ResetIsFinal ==
    file = Null => (scanResult = Null /\ isScanning = FALSE)

====
